---- MODULE Spec2Model ----
(***************************************************************************)
(* The adaptive segmentation engine: messages -> turns -> volleys ->       *)
(* sessions (src/segmentation/index.ts), the volley and session builders   *)
(* (src/unnamed/part_009, imported as ./volley), the timeout estimator     *)
(* (src/segmentation/kneedle.ts) and the time helpers                      *)
(* (src/unnamed/part_002, imported as ../utils/time).                      *)
(*                                                                         *)
(* Representation.                                                         *)
(*  - A Date is its getTime() value, in milliseconds, counted from         *)
(*    2024-01-01T00:00:00.000Z (the day the repository's tests use); a     *)
(*    message's sent_at is an ISO string denoting a whole second, kept as  *)
(*    that number of seconds.  On whole seconds the float division of      *)
(*    getGapSeconds is exact, so a gap is an integer number of seconds.    *)
(*  - An optional timeout argument is << >> when omitted and <<t>> when    *)
(*    supplied.                                                            *)
(*  - JavaScript arrays are sequences; array index k is position k + 1.    *)
(*  - A function that can throw returns [threw, value].                    *)
(*  - A sent_at string that is no date is kept as NaN, the getTime() value  *)
(*    of the Invalid Date that new Date makes of it.  NaN is the one        *)
(*    negative number among times, gaps and timeouts, which are all >= 0;   *)
(*    every comparison with NaN is false, as in JavaScript.                 *)
(*  - The normalised differences findKneePoint compares are doubles; two   *)
(*    of them that are equal as fractions are compared as the doubles the  *)
(*    division and the subtraction round to, 53 binary digits, ties to     *)
(*    even.  The percentile index ceil(p/100 * n) is exact for the p and n *)
(*    the callers below use.                                               *)
(***************************************************************************)
EXTENDS Integers, Sequences, FiniteSets, TLC

(* ------------------------------ bounds --------------------------------- *)

\* Longest message list handed to an entry point.
MaxMsgs == 3

\* Messages are sent at 0, TimeStep, ..., MaxTime * TimeStep seconds.
MaxTime == 3

\* Longest turn list a caller builds by hand.
MaxTurns == 3

\* Longest gap list handed to the timeout estimator.
MaxGaps == 4

\* Calls of getVolleys on one message list.
MaxCalls == 2

\* Seconds between two neighbouring instants of the grid.
TimeStep == 30

\* Supplied timeouts are 0, TimeStep, ..., MaxTimeout * TimeStep seconds.
MaxTimeout == 2

\* Longest message list with a timestamp that is no date.
MaxMalformed == 2

\* Longest volley list a caller hands to volleysToSessions.
MaxVolleys == 3

\* Longest gap list handed to getAdaptiveTimeout and calculateTimeouts; from
\* MinAdaptiveSamples gaps on the knee is looked for.
MaxSamples == 5

(* --------------------------- small helpers ----------------------------- *)

Abs(x) == IF x < 0 THEN -x ELSE x

Min(a, b) == IF a < b THEN a ELSE b

Max(a, b) == IF a > b THEN a ELSE b

\* Math.ceil(a / b) for b > 0, on exact quotients.
Ceil(a, b) == -((-a) \div b)

RECURSIVE Concat(_)
\* Array.prototype.flat of a list of lists.
Concat(ss) == IF ss = << >> THEN << >> ELSE Head(ss) \o Concat(Tail(ss))

(* ------------------- src/unnamed/part_002 (utils/time) ----------------- *)

\* The number NaN: the time value of an Invalid Date, and every number
\* computed from it.
NaN == -1

\* a > b on numbers: false when either is NaN.
Greater(a, b) == a # NaN /\ b # NaN /\ a > b

\* a >= b on numbers: false when either is NaN.
GreaterOrEqual(a, b) == a # NaN /\ b # NaN /\ a >= b

\* new Date(isoString): the instant in milliseconds; for a string that is no
\* date, the Invalid Date.  Nothing is thrown.
parseDate(date) == IF date = NaN THEN NaN ELSE date * 1000

getTime(d) == d

getGapSeconds(date1, date2) ==
  IF getTime(date1) = NaN \/ getTime(date2) = NaN THEN NaN
  ELSE Abs(getTime(date2) - getTime(date1)) \div 1000

(* --------------------- src/segmentation/kneedle.ts --------------------- *)

DefaultPercentileTimeout == 300

DefaultTurnTimeout == 180

DefaultThreadletTimeout == 1800

DefaultSessionTimeout == 14400

TurnPercentile == 70

ThreadletFallbackPercentile == 85

SessionPercentile == 95

MinAdaptiveSamples == 5

RECURSIVE insertNumber(_, _)
\* One step of the stable sort with comparator (a, b) => a - b; a NaN
\* difference is taken as +0 by the sort.
insertNumber(sorted, x) ==
  IF sorted = << >> THEN <<x>>
  ELSE IF x # NaN /\ Head(sorted) # NaN /\ x - Head(sorted) < 0
       THEN <<x>> \o sorted
  ELSE <<Head(sorted)>> \o insertNumber(Tail(sorted), x)

RECURSIVE sortNumbers(_)
\* [...gaps].sort((a, b) => a - b)
sortNumbers(gaps) ==
  IF gaps = << >> THEN << >>
  ELSE insertNumber(sortNumbers(SubSeq(gaps, 1, Len(gaps) - 1)), gaps[Len(gaps)])

\* The caller's gap array once the estimator has sorted: the sort runs on a
\* copy, [...gaps].
gapsAfterSort(gaps) == gaps

\* |xNorm[i] - yNorm[i]| = |i/(n-1) - (values[i]-yMin)/yRange|, scaled by the
\* common positive denominator (n-1) * yRange; i is the 0-based index.
kneeDiff(values, i) ==
  LET n == Len(values)
      yMin == values[1]
      yRange == values[n] - values[1]
  IN IF values[1] = NaN \/ values[n] = NaN \/ values[i + 1] = NaN THEN NaN
     ELSE Abs(i * yRange - (values[i + 1] - yMin) * (n - 1))

DoubleSignificand == 53

\* A double in [0, 1] is kept as nine limbs of ten binary digits: the first
\* limb is the integer part, the k-th has weight 2^(-10 * (k-1)).
RECURSIVE quotientLimbs(_, _, _, _)
\* The limbs of rem / b after those in acc, `steps` of them, with the
\* remainder left; b < 2^21.
quotientLimbs(rem, b, acc, steps) ==
  IF steps = 0 THEN [limbs |-> acc, rem |-> rem]
  ELSE quotientLimbs((rem * 1024) % b, b,
                     Append(acc, (rem * 1024) \div b), steps - 1)

\* The number of binary digits of a limb, 1 <= q < 1024.
bitLength(q) == CHOOSE t \in 1..10 : 2^(t - 1) <= q /\ q < 2^t

RECURSIVE addAtLimb(_, _, _)
\* u more in limb c, the carry passed up.
addAtLimb(limbs, c, u) ==
  IF limbs[c] + u < 1024 THEN [limbs EXCEPT ![c] = @ + u]
  ELSE addAtLimb([limbs EXCEPT ![c] = @ + u - 1024], c - 1, 1)

\* The first limb that is not 0, and the position of its first 1 among the
\* binary digits of the list, counted from 1.
firstLimb(limbs) ==
  CHOOSE k \in 1..Len(limbs) :
    limbs[k] # 0 /\ \A m \in 1..(k - 1) : limbs[m] = 0

firstDigit(limbs, f) == 10 * (f - 1) + (10 - bitLength(limbs[f])) + 1

\* Rounding to the nearest, ties to even, after the r-th digit of limb c,
\* the digit of weight u there; next is the limb after c, sticky tells of
\* digits beyond the list.
roundInLimb(limbs, sticky, c, r, u, next) ==
  LET guard == IF r < 10 THEN (limbs[c] % u) >= u \div 2 ELSE next >= 512
      rest == \/ sticky
              \/ IF r < 10
                 THEN \/ (limbs[c] % (u \div 2)) # 0
                      \/ \E k \in (c + 1)..Len(limbs) : limbs[k] # 0
                 ELSE \/ (next % 512) # 0
                      \/ \E k \in (c + 2)..Len(limbs) : limbs[k] # 0
      kept == [k \in 1..Len(limbs) |->
                 IF k < c THEN limbs[k]
                 ELSE IF k = c THEN limbs[c] - (limbs[c] % u) ELSE 0]
  IN IF guard /\ (rest \/ (limbs[c] \div u) % 2 = 1)
     THEN addAtLimb(kept, c, u)
     ELSE kept

\* Rounding after the digit at position last, which is in limb c.
roundAfter(limbs, sticky, last, c) ==
  IF c > Len(limbs) THEN limbs
  ELSE roundInLimb(limbs, sticky, c, last - 10 * (c - 1),
                   2^(10 - (last - 10 * (c - 1))),
                   IF c + 1 <= Len(limbs) THEN limbs[c + 1] ELSE 0)

\* Rounding to DoubleSignificand digits from the one at position first.
roundFrom(limbs, sticky, first) ==
  roundAfter(limbs, sticky, first + DoubleSignificand - 1,
             (first + DoubleSignificand - 1 + 9) \div 10)

\* An exact value, its limbs followed by a non-zero rest when sticky,
\* rounded to the nearest double.
roundToDouble(limbs, sticky) ==
  IF \A k \in 1..Len(limbs) : limbs[k] = 0 THEN limbs
  ELSE roundFrom(limbs, sticky, firstDigit(limbs, firstLimb(limbs)))

\* a / b for integers 0 <= a <= b, 0 < b < 2^21, rounded to the nearest
\* double: eight limbs after the integer part hold at least
\* DoubleSignificand + 1 digits from the first 1.
divide(a, b) ==
  LET q == quotientLimbs(a % b, b, <<a \div b>>, 8)
  IN roundToDouble(q.limbs, q.rem # 0)

\* x < y for limb lists of one length.
limbsLess(x, y) ==
  \E j \in 1..Len(x) :
    x[j] < y[j] /\ \A k \in 1..(j - 1) : x[k] = y[k]

RECURSIVE subtractLimbs(_, _, _, _, _)
\* x - y for limb lists of one length with x >= y, from the last limb.
subtractLimbs(x, y, k, borrow, acc) ==
  IF k = 0 THEN acc
  ELSE LET d == x[k] - y[k] - borrow
       IN subtractLimbs(x, y, k - 1, IF d < 0 THEN 1 ELSE 0,
                        <<(d + 1024) % 1024>> \o acc)

\* Math.abs(x - y) of two doubles in [0, 1].
absDifference(x, y) ==
  roundToDouble(IF limbsLess(x, y)
                THEN subtractLimbs(y, x, Len(x), 0, << >>)
                ELSE subtractLimbs(x, y, Len(x), 0, << >>),
                FALSE)

\* x > y of two doubles in [0, 1].
doubleGreater(x, y) == limbsLess(y, x)

\* Math.abs(differences[i]) as the double the code holds, for an ascending
\* list of numbers: xNorm[i] = i / (n - 1), yNorm[i] = (y - yMin) / yRange.
absDifferenceAt(values, i) ==
  absDifference(divide(i, Len(values) - 1),
                divide(values[i + 1] - values[1],
                       values[Len(values)] - values[1]))

\* diff > maxDiff, maxDiff being the difference at kneeIndex. Two
\* differences that are unequal as fractions lie at least
\* 1 / ((n-1) * yRange) apart, far more than the rounding of the doubles, so
\* they compare as the fractions do; two that are equal as fractions
\* compare as the doubles do.
diffGreater(values, i, maxDiff, kneeIndex) ==
  \/ kneeDiff(values, i) > maxDiff
  \/ /\ kneeDiff(values, i) = maxDiff
     /\ doubleGreater(absDifferenceAt(values, i),
                      absDifferenceAt(values, kneeIndex))

RECURSIVE kneeLoop(_, _, _, _, _)
\* for (let i = 1; i < n - 1; i++) { if (diff > maxDiff) ... }; hasMax is
\* FALSE while maxDiff is -Infinity.
kneeLoop(values, i, hasMax, maxDiff, kneeIndex) ==
  IF i >= Len(values) - 1 THEN kneeIndex
  ELSE IF kneeDiff(values, i) # NaN
            /\ (~hasMax \/ diffGreater(values, i, maxDiff, kneeIndex))
       THEN kneeLoop(values, i + 1, TRUE, kneeDiff(values, i), i)
       ELSE kneeLoop(values, i + 1, hasMax, maxDiff, kneeIndex)

\* Mutant: the degenerate case reported as index 0, an extreme.
findKneePoint_degenerateAtZero(values) ==
  IF Len(values) < 3 THEN Len(values) \div 2
  ELSE IF values[1] # NaN /\ values[Len(values)] # NaN
            /\ values[Len(values)] - values[1] = 0 THEN 0
  ELSE kneeLoop(values, 1, FALSE, 0, 0)

\* Mutant: the loop starts at the first index, an endpoint.
findKneePoint_fromFirstIndex(values) ==
  IF Len(values) < 3 THEN Len(values) \div 2
  ELSE IF values[1] # NaN /\ values[Len(values)] # NaN
            /\ values[Len(values)] - values[1] = 0 THEN Len(values) \div 2
  ELSE kneeLoop(values, 0, FALSE, 0, 0)

\* The 0-based knee index of an ascending list.
findKneePoint(values) ==
  IF Len(values) < 3 THEN Len(values) \div 2
  ELSE IF values[1] # NaN /\ values[Len(values)] # NaN
            /\ values[Len(values)] - values[1] = 0 THEN Len(values) \div 2
  ELSE kneeLoop(values, 1, FALSE, 0, 0)

\* Mutant: Math.floor for Math.ceil, and no - 1.
percentileIndex_floor(percentile, n) == (percentile * n) \div 100

\* Math.ceil((percentile / 100) * n) - 1
percentileIndex(percentile, n) == Ceil(percentile * n, 100) - 1

getPercentileTimeout(gaps, percentile) ==
  IF Len(gaps) = 0 THEN DefaultPercentileTimeout
  ELSE LET sorted == sortNumbers(gaps)
           index == percentileIndex(percentile, Len(sorted))
       IN sorted[Max(0, Min(index, Len(sorted) - 1)) + 1]

\* Mutant: the knee index returned for the value at it.
getAdaptiveTimeout_returnsIndex(gaps, fallbackPercentile) ==
  IF Len(gaps) < MinAdaptiveSamples
  THEN getPercentileTimeout(gaps, fallbackPercentile)
  ELSE LET sorted == sortNumbers(gaps)
           kneeIndex == findKneePoint(sorted)
       IN IF kneeIndex > 0 /\ kneeIndex < Len(sorted) - 1
          THEN kneeIndex
          ELSE getPercentileTimeout(sorted, fallbackPercentile)

\* Mutant: the knee consulted from three samples on.
getAdaptiveTimeout_kneeFromThree(gaps, fallbackPercentile) ==
  IF Len(gaps) < 3
  THEN getPercentileTimeout(gaps, fallbackPercentile)
  ELSE LET sorted == sortNumbers(gaps)
           kneeIndex == findKneePoint(sorted)
           kneeValue == sorted[kneeIndex + 1]
       IN IF kneeIndex > 0 /\ kneeIndex < Len(sorted) - 1
          THEN kneeValue
          ELSE getPercentileTimeout(sorted, fallbackPercentile)

\* Mutant: the percentile returned whatever the knee.
getAdaptiveTimeout_percentileOnly(gaps, fallbackPercentile) ==
  getPercentileTimeout(gaps, fallbackPercentile)

getAdaptiveTimeout(gaps, fallbackPercentile) ==
  IF Len(gaps) < MinAdaptiveSamples
  THEN getPercentileTimeout(gaps, fallbackPercentile)
  ELSE LET sorted == sortNumbers(gaps)
           kneeIndex == findKneePoint(sorted)
           kneeValue == sorted[kneeIndex + 1]
       IN IF kneeIndex > 0 /\ kneeIndex < Len(sorted) - 1
          THEN kneeValue
          ELSE getPercentileTimeout(sorted, fallbackPercentile)

\* The line of the return statement that ends getAdaptiveTimeout(gaps, _):
\* 88 for too few samples, 99 for the knee value, 105 for the fallback.
getAdaptiveTimeoutReturn(gaps) ==
  IF Len(gaps) < MinAdaptiveSamples THEN 88
  ELSE LET sorted == sortNumbers(gaps)
           kneeIndex == findKneePoint(sorted)
       IN IF kneeIndex > 0 /\ kneeIndex < Len(sorted) - 1 THEN 99 ELSE 105

\* Mutant: no defaults for an empty list.
calculateTimeouts_noDefaults(gaps) ==
  LET sorted == sortNumbers(gaps)
  IN [turn_timeout |-> getPercentileTimeout(sorted, TurnPercentile),
      threadlet_timeout |->
        getAdaptiveTimeout(sorted, ThreadletFallbackPercentile),
      session_timeout |-> getPercentileTimeout(sorted, SessionPercentile)]

calculateTimeouts(gaps) ==
  IF Len(gaps) = 0
  THEN [turn_timeout |-> DefaultTurnTimeout,
        threadlet_timeout |-> DefaultThreadletTimeout,
        session_timeout |-> DefaultSessionTimeout]
  ELSE LET sorted == sortNumbers(gaps)
       IN [turn_timeout |-> getPercentileTimeout(sorted, TurnPercentile),
           threadlet_timeout |->
             getAdaptiveTimeout(sorted, ThreadletFallbackPercentile),
           session_timeout |-> getPercentileTimeout(sorted, SessionPercentile)]

\* `!timeout` on an optional number: omitted (undefined) or 0.
Falsy(timeout) == timeout = << >> \/ timeout[1] = 0

(* ------------- src/segmentation/index.ts: messages -> turns ------------ *)

\* Mutant: the comparator with its operands swapped, b before a.
compareSentAt_descending(a, b) ==
  IF getTime(parseDate(a.sent_at)) = NaN \/ getTime(parseDate(b.sent_at)) = NaN
  THEN NaN
  ELSE getTime(parseDate(b.sent_at)) - getTime(parseDate(a.sent_at))

\* The comparator of the sort of messagesToTurns: a difference of
\* milliseconds of whole seconds, or NaN.
compareSentAt(a, b) ==
  IF getTime(parseDate(a.sent_at)) = NaN \/ getTime(parseDate(b.sent_at)) = NaN
  THEN NaN
  ELSE getTime(parseDate(a.sent_at)) - getTime(parseDate(b.sent_at))

RECURSIVE insertMessage(_, _)
\* Array.prototype.sort is stable: a message goes behind every message that
\* does not compare greater.  A NaN from the comparator is taken as +0; with
\* three or more messages it makes the comparator inconsistent and the order
\* the engine's choice, of which this insertion order is one.
insertMessage(sorted, m) ==
  IF sorted = << >> THEN <<m>>
  ELSE IF compareSentAt(m, Head(sorted)) # NaN
            /\ compareSentAt(m, Head(sorted)) < 0 THEN <<m>> \o sorted
  ELSE <<Head(sorted)>> \o insertMessage(Tail(sorted), m)

\* Mutant: the messages taken in the caller's order.
sortMessages_unsorted(messages) == messages

RECURSIVE sortMessages(_)
\* [...messages].sort(compareSentAt): a sorted copy.
sortMessages(messages) ==
  IF messages = << >> THEN << >>
  ELSE insertMessage(sortMessages(SubSeq(messages, 1, Len(messages) - 1)),
                     messages[Len(messages)])

\* Mutant: the caller's array sorted in place.
messagesAfterSort_inPlace(messages) == sortMessages(messages)

\* The caller's message array once messagesToTurns has sorted: the sort
\* runs on a copy, [...messages].
messagesAfterSort(messages) == messages

\* The gaps between consecutive sorted messages.
messageGaps(sorted) ==
  [i \in 1..(Len(sorted) - 1) |->
     getGapSeconds(parseDate(sorted[i].sent_at), parseDate(sorted[i + 1].sent_at))]

\* The value of turnTimeout after the `if (!turnTimeout)` block.
turnTimeoutUsed(sorted, turnTimeout) ==
  IF Falsy(turnTimeout)
  THEN calculateTimeouts(messageGaps(sorted)).turn_timeout
  ELSE turnTimeout[1]

\* Mutant: the end time read from the first message.
createTurn_endOfFirst(messages, senderId) ==
  [messages |-> messages,
   sender_id |-> senderId,
   start_time |-> parseDate(messages[1].sent_at),
   end_time |-> parseDate(messages[1].sent_at)]

createTurn(messages, senderId) ==
  [messages |-> messages,
   sender_id |-> senderId,
   start_time |-> parseDate(messages[1].sent_at),
   end_time |-> parseDate(messages[Len(messages)].sent_at)]

\* Mutant: senderChanged forgotten.
startsNewTurn_timeoutOnly(currMsg, currentSender, gap, turnTimeout) ==
  Greater(gap, turnTimeout)

\* Mutant: >= for >.
startsNewTurn_atTimeout(currMsg, currentSender, gap, turnTimeout) ==
  currMsg.from_id # currentSender \/ GreaterOrEqual(gap, turnTimeout)

\* senderChanged || timeoutExceeded
startsNewTurn(currMsg, currentSender, gap, turnTimeout) ==
  currMsg.from_id # currentSender \/ Greater(gap, turnTimeout)

RECURSIVE turnLoop(_, _, _, _, _, _)
\* The scan over sorted[1..]; i is the 1-based position of currMsg.
turnLoop(sorted, i, turns, currentTurn, currentSender, turnTimeout) ==
  IF i > Len(sorted)
  THEN IF Len(currentTurn) > 0
       THEN Append(turns, createTurn(currentTurn, currentSender))
       ELSE turns
  ELSE LET prevMsg == sorted[i - 1]
           currMsg == sorted[i]
           gap == getGapSeconds(parseDate(prevMsg.sent_at),
                                parseDate(currMsg.sent_at))
       IN IF startsNewTurn(currMsg, currentSender, gap, turnTimeout)
          THEN turnLoop(sorted, i + 1,
                        Append(turns, createTurn(currentTurn, currentSender)),
                        <<currMsg>>, currMsg.from_id, turnTimeout)
          ELSE turnLoop(sorted, i + 1, turns, Append(currentTurn, currMsg),
                        currentSender, turnTimeout)

messagesToTurns(messages, turnTimeout) ==
  IF Len(messages) = 0 THEN << >>
  ELSE LET sorted == sortMessages(messages)
       IN turnLoop(sorted, 2, << >>, <<sorted[1]>>, sorted[1].from_id,
                   turnTimeoutUsed(sorted, turnTimeout))

(* ------------------ src/unnamed/part_009 (./volley) -------------------- *)

pad2(n) == IF n < 10 THEN "0" \o ToString(n) ELSE ToString(n)

pad3(n) == IF n < 10 THEN "00" \o ToString(n)
           ELSE IF n < 100 THEN "0" \o ToString(n) ELSE ToString(n)

\* The first five characters of the time part of Date.toISOString(): HH:MM.
isoHourMinute(d) ==
  pad2(((getTime(d) \div 1000) \div 3600) % 24) \o ":"
    \o pad2(((getTime(d) \div 1000) \div 60) % 60)

\* Date.toISOString(), for instants of January 2024.
toISOString(d) ==
  "2024-01-" \o pad2(((getTime(d) \div 1000) \div 86400) + 1) \o "T"
    \o isoHourMinute(d) \o ":" \o pad2((getTime(d) \div 1000) % 60)
    \o "." \o pad3(getTime(d) % 1000) \o "Z"

RECURSIVE digits(_)
\* String(n) of a non-negative integer, as its decimal digits.
digits(n) == IF n < 10 THEN <<n>> ELSE digits(n \div 10) \o <<n % 10>>

RECURSIVE stringLess(_, _)
\* a < b on strings: by code unit, a proper prefix first.
stringLess(a, b) ==
  IF b = << >> THEN FALSE
  ELSE IF a = << >> THEN TRUE
  ELSE IF Head(a) # Head(b) THEN Head(a) < Head(b)
  ELSE stringLess(Tail(a), Tail(b))

\* The comparison Array.prototype.sort() makes with no comparator: elements
\* are compared as strings.
defaultCompare(x, y) ==
  IF stringLess(digits(x), digits(y)) THEN -1
  ELSE IF stringLess(digits(y), digits(x)) THEN 1 ELSE 0

RECURSIVE insertDefault(_, _)
insertDefault(sorted, x) ==
  IF sorted = << >> THEN <<x>>
  ELSE IF defaultCompare(x, Head(sorted)) < 0 THEN <<x>> \o sorted
  ELSE <<Head(sorted)>> \o insertDefault(Tail(sorted), x)

RECURSIVE sortDefault(_)
\* ids.sort()
sortDefault(ids) ==
  IF ids = << >> THEN << >>
  ELSE insertDefault(sortDefault(SubSeq(ids, 1, Len(ids) - 1)), ids[Len(ids)])

RECURSIVE uniqueInOrder(_)
\* Array.from(new Set(xs)): the first occurrence of each element, in order.
uniqueInOrder(xs) ==
  IF xs = << >> THEN << >>
  ELSE LET init == uniqueInOrder(SubSeq(xs, 1, Len(xs) - 1))
           x == xs[Len(xs)]
       IN IF \E k \in 1..Len(init) : init[k] = x THEN init ELSE Append(init, x)

RECURSIVE join(_, _)
\* Array.prototype.join of strings.
join(strs, sep) ==
  IF strs = << >> THEN ""
  ELSE IF Len(strs) = 1 THEN strs[1]
  ELSE strs[1] \o sep \o join(Tail(strs), sep)

\* sha256(data).substring(0, 16): a function of data alone, taken to be
\* collision-free.
sha256Prefix(data) == "sha256:" \o data

\* Mutant: the ids joined in the order passed.
createVolleyId_unsorted(startTime, endTime, participantIds) ==
  sha256Prefix(toISOString(startTime) \o "-" \o toISOString(endTime) \o "-"
    \o join([k \in 1..Len(participantIds) |-> ToString(participantIds[k])],
            ","))

\* participantIds.sort() sorts the caller's array in place; buildVolley
\* passes its already sorted participants.
createVolleyId(startTime, endTime, participantIds) ==
  sha256Prefix(toISOString(startTime) \o "-" \o toISOString(endTime) \o "-"
    \o join([k \in 1..Len(participantIds) |->
               ToString(sortDefault(participantIds)[k])], ","))

RECURSIVE depthLoop_countsRuns(_, _, _, _)
\* Mutant: the first turn counted as a change of speaker.
depthLoop_countsRuns(turns, hasLast, lastSender, depth) ==
  IF turns = << >> THEN depth
  ELSE depthLoop_countsRuns(Tail(turns), TRUE, Head(turns).sender_id,
                            IF ~hasLast \/ Head(turns).sender_id # lastSender
                            THEN depth + 1 ELSE depth)

RECURSIVE depthLoop(_, _, _, _)
\* for (const turn of turns): hasLast is FALSE while lastSender is null.
depthLoop(turns, hasLast, lastSender, depth) ==
  IF turns = << >> THEN depth
  ELSE depthLoop(Tail(turns), TRUE, Head(turns).sender_id,
                 IF hasLast /\ Head(turns).sender_id # lastSender
                 THEN depth + 1 ELSE depth)

\* One line of the pivot text.
pivotLine(msg, participants) ==
  isoHourMinute(parseDate(msg.sent_at)) \o " - "
    \o (IF msg.from_id = participants[1] THEN "Me" ELSE "Them")
    \o ": " \o msg.content

\* toISOString throws a RangeError on an Invalid Date.
toISOStringThrows(d) == getTime(d) = NaN

\* buildVolley throws on an empty list, and where it formats an Invalid
\* Date: the time of a message for the pivot text, or the start or the end
\* for the id.
buildVolleyThrows(turns) ==
  \/ Len(turns) = 0
  \/ \E k \in 1..Len(turns) :
       \E i \in 1..Len(turns[k].messages) :
         toISOStringThrows(parseDate(turns[k].messages[i].sent_at))
  \/ toISOStringThrows(turns[1].start_time)
  \/ toISOStringThrows(turns[Len(turns)].end_time)

\* Mutant: message_count taken from the turn list, turns.length.
buildVolley_countsTurns(turns) ==
  LET messages == Concat([k \in 1..Len(turns) |-> turns[k].messages])
      participants ==
        sortDefault(uniqueInOrder([k \in 1..Len(turns) |-> turns[k].sender_id]))
      startTime == turns[1].start_time
      endTime == turns[Len(turns)].end_time
  IN [id |-> createVolleyId(startTime, endTime, participants),
      turns |-> turns,
      participants |-> participants,
      start_time |-> startTime,
      end_time |-> endTime,
      depth |-> depthLoop(turns, FALSE, 0, 0),
      message_count |-> Len(turns),
      pivot_text |->
        join([k \in 1..Len(messages) |-> pivotLine(messages[k], participants)],
             "\n")]

\* The volley of a non-empty turn list.
buildVolley(turns) ==
  LET messages == Concat([k \in 1..Len(turns) |-> turns[k].messages])
      participants ==
        sortDefault(uniqueInOrder([k \in 1..Len(turns) |-> turns[k].sender_id]))
      startTime == turns[1].start_time
      endTime == turns[Len(turns)].end_time
  IN [id |-> createVolleyId(startTime, endTime, participants),
      turns |-> turns,
      participants |-> participants,
      start_time |-> startTime,
      end_time |-> endTime,
      depth |-> depthLoop(turns, FALSE, 0, 0),
      message_count |-> Len(messages),
      pivot_text |->
        join([k \in 1..Len(messages) |-> pivotLine(messages[k], participants)],
             "\n")]

\* duration_minutes is getGapSeconds(startTime, endTime) / 60, kept as the
\* fraction <<seconds, 60>>.
buildSession(volleys) ==
  [volleys |-> volleys,
   participants |->
     sortDefault(uniqueInOrder(
       Concat([k \in 1..Len(volleys) |-> volleys[k].participants]))),
   start_time |-> volleys[1].start_time,
   end_time |-> volleys[Len(volleys)].end_time,
   duration_minutes |->
     <<getGapSeconds(volleys[1].start_time, volleys[Len(volleys)].end_time), 60>>]

\* Mutant: >= for >.
startsNewSession_atTimeout(gap, sessionTimeout) ==
  GreaterOrEqual(gap, sessionTimeout)

\* gap > sessionTimeout
startsNewSession(gap, sessionTimeout) == Greater(gap, sessionTimeout)

RECURSIVE sessionLoop(_, _, _, _, _)
sessionLoop(volleys, i, sessions, currentSession, sessionTimeout) ==
  IF i > Len(volleys)
  THEN IF Len(currentSession) > 0
       THEN Append(sessions, buildSession(currentSession))
       ELSE sessions
  ELSE LET prevVolley == volleys[i - 1]
           currVolley == volleys[i]
           gap == getGapSeconds(prevVolley.end_time, currVolley.start_time)
       IN IF startsNewSession(gap, sessionTimeout)
          THEN sessionLoop(volleys, i + 1,
                           Append(sessions, buildSession(currentSession)),
                           <<currVolley>>, sessionTimeout)
          ELSE sessionLoop(volleys, i + 1, sessions,
                           Append(currentSession, currVolley), sessionTimeout)

groupVolleysIntoSessions(volleys, sessionTimeout) ==
  IF Len(volleys) = 0 THEN << >>
  ELSE sessionLoop(volleys, 2, << >>, <<volleys[1]>>, sessionTimeout)

(* ------ src/segmentation/index.ts: turns -> volleys -> sessions -------- *)

Returned(v) == [threw |-> FALSE, value |-> v]

Thrown == [threw |-> TRUE, value |-> << >>]

\* The gaps between consecutive turns, end to start.
turnGaps(turns) ==
  [i \in 1..(Len(turns) - 1) |->
     getGapSeconds(turns[i].end_time, turns[i + 1].start_time)]

\* Mutant: the turn timeout taken for the threadlet timeout.
threadletTimeoutUsed_turnTimeout(turns, threadletTimeout) ==
  IF Falsy(threadletTimeout)
  THEN calculateTimeouts(turnGaps(turns)).turn_timeout
  ELSE threadletTimeout[1]

\* The value of threadletTimeout after the `if (!threadletTimeout)` block.
threadletTimeoutUsed(turns, threadletTimeout) ==
  IF Falsy(threadletTimeout)
  THEN calculateTimeouts(turnGaps(turns)).threadlet_timeout
  ELSE threadletTimeout[1]

\* Mutant: >= for >.
startsNewVolley_atTimeout(gap, threadletTimeout) ==
  GreaterOrEqual(gap, threadletTimeout)

\* gap > threadletTimeout
startsNewVolley(gap, threadletTimeout) == Greater(gap, threadletTimeout)

RECURSIVE volleyLoop_splitsOnSender(_, _, _, _, _)
\* Mutant: a change of sender starts a new volley too, as it starts a turn.
volleyLoop_splitsOnSender(turns, i, volleys, currentVolley, threadletTimeout) ==
  IF i > Len(turns)
  THEN IF Len(currentVolley) > 0
       THEN IF buildVolleyThrows(currentVolley) THEN Thrown
            ELSE Returned(Append(volleys, buildVolley(currentVolley)))
       ELSE Returned(volleys)
  ELSE LET prevTurn == turns[i - 1]
           currTurn == turns[i]
           gap == getGapSeconds(prevTurn.end_time, currTurn.start_time)
       IN IF \/ currTurn.sender_id # prevTurn.sender_id
             \/ startsNewVolley(gap, threadletTimeout)
          THEN IF buildVolleyThrows(currentVolley) THEN Thrown
               ELSE volleyLoop_splitsOnSender(
                      turns, i + 1,
                      Append(volleys, buildVolley(currentVolley)),
                      <<currTurn>>, threadletTimeout)
          ELSE volleyLoop_splitsOnSender(
                 turns, i + 1, volleys,
                 Append(currentVolley, currTurn), threadletTimeout)

RECURSIVE volleyLoop_dropsTurn(_, _, _, _, _)
\* Mutant: the volley after a boundary starts empty, the turn that opens it
\* dropped.
volleyLoop_dropsTurn(turns, i, volleys, currentVolley, threadletTimeout) ==
  IF i > Len(turns)
  THEN IF Len(currentVolley) > 0
       THEN IF buildVolleyThrows(currentVolley) THEN Thrown
            ELSE Returned(Append(volleys, buildVolley(currentVolley)))
       ELSE Returned(volleys)
  ELSE LET prevTurn == turns[i - 1]
           currTurn == turns[i]
           gap == getGapSeconds(prevTurn.end_time, currTurn.start_time)
       IN IF startsNewVolley(gap, threadletTimeout)
          THEN IF buildVolleyThrows(currentVolley) THEN Thrown
               ELSE volleyLoop_dropsTurn(
                      turns, i + 1,
                      Append(volleys, buildVolley(currentVolley)),
                      << >>, threadletTimeout)
          ELSE volleyLoop_dropsTurn(
                 turns, i + 1, volleys,
                 Append(currentVolley, currTurn), threadletTimeout)

RECURSIVE volleyLoop(_, _, _, _, _)
\* The scan over turns[1..]; i is the 1-based position of currTurn.  A throw
\* of buildVolley leaves the function.
volleyLoop(turns, i, volleys, currentVolley, threadletTimeout) ==
  IF i > Len(turns)
  THEN IF Len(currentVolley) > 0
       THEN IF buildVolleyThrows(currentVolley) THEN Thrown
            ELSE Returned(Append(volleys, buildVolley(currentVolley)))
       ELSE Returned(volleys)
  ELSE LET prevTurn == turns[i - 1]
           currTurn == turns[i]
           gap == getGapSeconds(prevTurn.end_time, currTurn.start_time)
       IN IF startsNewVolley(gap, threadletTimeout)
          THEN IF buildVolleyThrows(currentVolley) THEN Thrown
               ELSE volleyLoop(turns, i + 1,
                               Append(volleys, buildVolley(currentVolley)),
                               <<currTurn>>, threadletTimeout)
          ELSE volleyLoop(turns, i + 1, volleys,
                          Append(currentVolley, currTurn), threadletTimeout)

\* Mutant: currentVolley starts empty, the first turn forgotten.
turnsToVolleys_unseeded(turns, threadletTimeout) ==
  IF Len(turns) = 0 THEN Returned(<< >>)
  ELSE volleyLoop(turns, 2, << >>, << >>,
                  threadletTimeoutUsed(turns, threadletTimeout))

\* Mutant: no check for an empty list; turns[0] is then undefined and
\* buildVolley throws reading it.
turnsToVolleys_unguarded(turns, threadletTimeout) ==
  IF Len(turns) = 0 THEN Thrown
  ELSE volleyLoop(turns, 2, << >>, <<turns[1]>>,
                  threadletTimeoutUsed(turns, threadletTimeout))

turnsToVolleys(turns, threadletTimeout) ==
  IF Len(turns) = 0 THEN Returned(<< >>)
  ELSE volleyLoop(turns, 2, << >>, <<turns[1]>>,
                  threadletTimeoutUsed(turns, threadletTimeout))

\* The gaps between consecutive volleys, end to start.
volleyGaps(volleys) ==
  [i \in 1..(Len(volleys) - 1) |->
     getGapSeconds(volleys[i].end_time, volleys[i + 1].start_time)]

\* The value of sessionTimeout after the `if (!sessionTimeout)` block.
sessionTimeoutUsed(volleys, sessionTimeout) ==
  IF Falsy(sessionTimeout)
  THEN calculateTimeouts(volleyGaps(volleys)).session_timeout
  ELSE sessionTimeout[1]

volleysToSessions(volleys, sessionTimeout) ==
  IF Len(volleys) = 0 THEN << >>
  ELSE groupVolleysIntoSessions(volleys,
                                sessionTimeoutUsed(volleys, sessionTimeout))

getVolleys(messages) ==
  IF Len(messages) = 0 THEN Returned(<< >>)
  ELSE turnsToVolleys(messagesToTurns(messages, << >>), << >>)

\* Mutant: the three timeouts derived once, from the message gaps, and handed
\* to the phases.
getFullSegmentation_sharedTimeouts(messages) ==
  LET shared == calculateTimeouts(messageGaps(sortMessages(messages)))
      turns == messagesToTurns(messages, <<shared.turn_timeout>>)
      volleys == turnsToVolleys(turns, <<shared.threadlet_timeout>>)
  IN IF volleys.threw
     THEN [threw |-> TRUE, turns |-> << >>, volleys |-> << >>,
           sessions |-> << >>]
     ELSE [threw |-> FALSE, turns |-> turns, volleys |-> volleys.value,
           sessions |-> volleysToSessions(volleys.value,
                                          <<shared.session_timeout>>)]

\* The three phases in a row; a throw of turnsToVolleys leaves the function.
getFullSegmentation(messages) ==
  LET turns == messagesToTurns(messages, << >>)
      volleys == turnsToVolleys(turns, << >>)
  IN IF volleys.threw
     THEN [threw |-> TRUE, turns |-> << >>, volleys |-> << >>,
           sessions |-> << >>]
     ELSE [threw |-> FALSE, turns |-> turns, volleys |-> volleys.value,
           sessions |-> volleysToSessions(volleys.value, << >>)]

(* ----------------------------- the callers ----------------------------- *)

\* Sender ids, of one and of two digits.
Senders == {2, 10}

\* The instants messages are sent at, in seconds.
Instants == {k * TimeStep : k \in 0..MaxTime}

\* A timeout argument: omitted, or one of the supplied values (0 included).
TimeoutArgs == {<< >>} \cup {<<k * TimeStep>> : k \in 0..MaxTimeout}

\* The Message of segmentation.test.ts's createMessage.
createMessage(id, fromId, sentAt) ==
  [ID |-> id, from_id |-> fromId, content |-> "m" \o ToString(id),
   sent_at |-> sentAt]

\* Every message list of up to MaxMsgs messages, in any order of sending; a
\* message's ID is its position in the caller's list.
MessageLists ==
  {[i \in 1..Len(f) |-> createMessage(i, f[i][1], f[i][2])] :
     f \in UNION {[1..n -> Senders \X Instants] : n \in 0..MaxMsgs}}

\* Two senders alternating: five messages, a silence, three more; listed in
\* the order of sending, or backwards.
Conversation(backwards) ==
  [i \in 1..8 |->
     LET n == IF backwards THEN 9 - i ELSE i
     IN createMessage(i, IF n % 2 = 1 THEN 2 ELSE 10,
                      IF n <= 5 THEN 10 * (n - 1) ELSE 1000 + 10 * (n - 6))]

\* Two bursts of three messages 1000 seconds apart, each of two turns: the
\* gaps between the messages are 100, 20, 1000, 100, 30 seconds, those
\* between the turns 20, 1000, 30.
TwoBursts ==
  <<createMessage(1, 2, 0), createMessage(2, 2, 100),
    createMessage(3, 10, 120), createMessage(4, 2, 1120),
    createMessage(5, 2, 1220), createMessage(6, 10, 1250)>>

Conversations == {Conversation(FALSE), Conversation(TRUE), TwoBursts}

\* A turn as segmentation.test.ts builds it by hand: one message at its start
\* and, when it lasts, a second one at its end.
handTurn(k, senderId, start, duration) ==
  [messages |->
     IF duration = 0 THEN <<createMessage(2 * k - 1, senderId, start)>>
     ELSE <<createMessage(2 * k - 1, senderId, start),
            createMessage(2 * k, senderId, start + duration)>>,
   sender_id |-> senderId,
   start_time |-> parseDate(start),
   end_time |-> parseDate(start + duration)]

\* Every list of up to MaxTurns hand-built turns, chronological or not: a
\* turn starts at second 0 or one step later, and lasts no time or one step.
TurnLists ==
  {[k \in 1..Len(f) |-> handTurn(k, f[k][1], f[k][2], f[k][3])] :
     f \in UNION {[1..n -> Senders \X {0, TimeStep} \X {0, TimeStep}] :
                    n \in 0..MaxTurns}}

\* Turns of the given senders, one single-message turn a minute.
turnsOfSenders(senderIds) ==
  [k \in 1..Len(senderIds) |-> handTurn(k, senderIds[k], 60 * k, 0)]

\* Single-message turns of alternating senders that start at the given
\* seconds.
turnsAtStarts(starts) ==
  [k \in 1..Len(starts) |->
     handTurn(k, IF k % 2 = 1 THEN 2 ELSE 10, starts[k], 0)]

\* The longest sender sequence the specification gives a depth for, and
\* five turns of which the last follows a silence of more than an hour.
LiteralTurnLists ==
  {turnsOfSenders(<<2, 2, 10, 10, 2>>),
   turnsAtStarts(<<0, 60, 120, 180, 4000>>)}

\* Gap lists of up to MaxGaps gaps, unsorted.
GapLists == UNION {[1..n -> Instants] : n \in 0..MaxGaps}

Percentiles == {5 * k : k \in 0..20}

VARIABLES
  messages,    \* the caller's message array
  timeoutArg,  \* the timeout argument the caller passes to the phases
  op,          \* the entry point that returned last
  turns,       \* the Turn[] last returned, or built by the caller
  volleys,     \* the Volley[] last returned
  sessions,    \* the Session[] last returned
  threw,       \* whether the last call threw
  calls,       \* calls of getVolleys so far
  gaps,        \* the caller's gap array
  percentile,  \* the percentile the caller passes
  timeout,     \* the timeout the estimator returned last
  timeouts,    \* the timeout triple calculateTimeouts returned last
  returnedAt,  \* the line of the return that ended getAdaptiveTimeout
  kneePoint    \* the index findKneePoint returned last

vars == <<messages, timeoutArg, op, turns, volleys, sessions, threw, calls,
          gaps, percentile, timeout, timeouts, returnedAt, kneePoint>>

\* What a caller that has not called yet holds.
NothingReturned ==
  /\ volleys = << >>
  /\ sessions = << >>
  /\ threw = FALSE
  /\ calls = 0
  /\ timeout = 0
  /\ timeouts = << >>
  /\ returnedAt = 0
  /\ kneePoint = 0

\* A caller of the segmentation entry points, holding a message list.
Init ==
  /\ messages \in MessageLists \cup Conversations
  /\ timeoutArg = << >>
  /\ op = "start"
  /\ turns = << >>
  /\ gaps = << >>
  /\ percentile = 0
  /\ NothingReturned

\* turns = messagesToTurns(messages, t), t omitted or supplied
MessagesToTurns ==
  /\ op = "start"
  /\ \E t \in TimeoutArgs :
       /\ timeoutArg' = t
       /\ turns' = messagesToTurns(messages, t)
  /\ op' = "messagesToTurns"
  /\ threw' = FALSE
  /\ messages' = messagesAfterSort(messages)
  /\ UNCHANGED <<volleys, sessions, calls, gaps, percentile, timeout,
                 timeouts, returnedAt, kneePoint>>

\* volleys = turnsToVolleys(turns, timeoutArg)
TurnsToVolleys ==
  /\ op \in {"messagesToTurns", "turns"}
  /\ LET r == turnsToVolleys(turns, timeoutArg)
     IN /\ volleys' = r.value
        /\ threw' = r.threw
  /\ op' = "turnsToVolleys"
  /\ UNCHANGED <<messages, timeoutArg, turns, sessions, calls, gaps,
                 percentile, timeout, timeouts, returnedAt, kneePoint>>

\* sessions = volleysToSessions(volleys, timeoutArg)
VolleysToSessions ==
  /\ op \in {"turnsToVolleys", "volleys"}
  /\ ~threw
  /\ sessions' = volleysToSessions(volleys, timeoutArg)
  /\ op' = "volleysToSessions"
  /\ UNCHANGED <<messages, timeoutArg, turns, volleys, threw, calls, gaps,
                 percentile, timeout, timeouts, returnedAt, kneePoint>>

\* Mutant: the result array kept across calls and appended to.
GetVolleys_accumulating ==
  /\ op \in {"start", "getVolleys"}
  /\ calls < MaxCalls
  /\ LET r == getVolleys(messages)
     IN /\ volleys' = volleys \o r.value
        /\ threw' = r.threw
  /\ op' = "getVolleys"
  /\ calls' = calls + 1
  /\ messages' = messagesAfterSort(messages)
  /\ UNCHANGED <<timeoutArg, turns, sessions, gaps, percentile, timeout,
                 timeouts, returnedAt, kneePoint>>

\* volleys = getVolleys(messages), once and again
GetVolleys ==
  /\ op \in {"start", "getVolleys"}
  /\ calls < MaxCalls
  /\ LET r == getVolleys(messages)
     IN /\ volleys' = r.value
        /\ threw' = r.threw
  /\ op' = "getVolleys"
  /\ calls' = calls + 1
  /\ messages' = messagesAfterSort(messages)
  /\ UNCHANGED <<timeoutArg, turns, sessions, gaps, percentile, timeout,
                 timeouts, returnedAt, kneePoint>>

\* {turns, volleys, sessions} = getFullSegmentation(messages)
GetFullSegmentation ==
  /\ op = "start"
  /\ LET r == getFullSegmentation(messages)
     IN /\ turns' = r.turns
        /\ volleys' = r.volleys
        /\ sessions' = r.sessions
        /\ threw' = r.threw
  /\ op' = "getFullSegmentation"
  /\ messages' = messagesAfterSort(messages)
  /\ UNCHANGED <<timeoutArg, calls, gaps, percentile, timeout, timeouts,
                 returnedAt, kneePoint>>

Next ==
  \/ MessagesToTurns
  \/ TurnsToVolleys
  \/ VolleysToSessions
  \/ GetVolleys
  \/ GetFullSegmentation

Spec == Init /\ [][Next]_vars

\* No two messages have the same timestamp.
DistinctTimestamps(msgs) ==
  \A i, j \in 1..Len(msgs) : i # j => msgs[i].sent_at # msgs[j].sent_at

\* A caller of getVolleys whose messages have pairwise distinct timestamps.
InitDistinct ==
  /\ Init
  /\ DistinctTimestamps(messages)

NextDistinct ==
  \/ GetVolleys

SpecDistinct == InitDistinct /\ [][NextDistinct]_vars

\* A caller of phases 2 and 3, holding a turn list it built by hand.
InitTurns ==
  /\ messages = << >>
  /\ timeoutArg \in TimeoutArgs
  /\ op = "turns"
  /\ turns \in TurnLists \cup LiteralTurnLists
  /\ gaps = << >>
  /\ percentile = 0
  /\ NothingReturned

\* volleys = [buildVolley(turns)]
BuildVolley ==
  /\ op = "turns"
  /\ IF buildVolleyThrows(turns)
     THEN volleys' = << >> /\ threw' = TRUE
     ELSE volleys' = <<buildVolley(turns)>> /\ threw' = FALSE
  /\ op' = "buildVolley"
  /\ UNCHANGED <<messages, timeoutArg, turns, sessions, calls, gaps,
                 percentile, timeout, timeouts, returnedAt, kneePoint>>

NextTurns ==
  \/ TurnsToVolleys
  \/ VolleysToSessions
  \/ BuildVolley

SpecTurns == InitTurns /\ [][NextTurns]_vars

\* A caller of the timeout estimator, holding a gap list.
InitGaps ==
  /\ messages = << >>
  /\ timeoutArg = << >>
  /\ op = "gaps"
  /\ turns = << >>
  /\ gaps \in GapLists
  /\ percentile \in Percentiles
  /\ NothingReturned

\* timeout = getPercentileTimeout(gaps, percentile)
GetPercentileTimeout ==
  /\ op \in {"gaps", "samples"}
  /\ timeout' = getPercentileTimeout(gaps, percentile)
  /\ op' = "getPercentileTimeout"
  /\ gaps' = gapsAfterSort(gaps)
  /\ UNCHANGED <<messages, timeoutArg, turns, volleys, sessions, threw, calls,
                 percentile, timeouts, returnedAt, kneePoint>>

NextGaps ==
  \/ GetPercentileTimeout

SpecGaps == InitGaps /\ [][NextGaps]_vars

\* A message list has a sent_at that is no date.
Malformed(msgs) == \E i \in 1..Len(msgs) : msgs[i].sent_at = NaN

\* Every list of 1 to MaxMalformed messages of which at least one has a
\* sent_at that is no date; the others are sent at second 0 or a step later.
MalformedLists ==
  {msgs \in
     {[i \in 1..Len(f) |-> createMessage(i, f[i][1], f[i][2])] :
        f \in UNION {[1..n -> Senders \X {0, TimeStep, NaN}] :
                       n \in 1..MaxMalformed}} :
     Malformed(msgs)}

\* A caller of the segmentation entry points, holding such a list.
InitMalformed ==
  /\ messages \in MalformedLists
  /\ timeoutArg = << >>
  /\ op = "start"
  /\ turns = << >>
  /\ gaps = << >>
  /\ percentile = 0
  /\ NothingReturned

\* turnsToVolleys throws on these lists, so there are no volleys to hand to
\* volleysToSessions.
NextMalformed ==
  \/ MessagesToTurns
  \/ TurnsToVolleys
  \/ GetVolleys
  \/ GetFullSegmentation

SpecMalformed == InitMalformed /\ [][NextMalformed]_vars

\* A volley a caller holds: the volley of one hand-built turn, the two
\* senders taking turns.
handVolley(k, start, duration) ==
  buildVolley(<<handTurn(k, IF k % 2 = 1 THEN 2 ELSE 10, start, duration)>>)

\* Every list of up to MaxVolleys such volleys, chronological or not.
VolleyLists ==
  {[k \in 1..Len(f) |-> handVolley(k, f[k][1], f[k][2])] :
     f \in UNION {[1..n -> Instants \X {0, TimeStep}] : n \in 0..MaxVolleys}}

\* A caller of phase 3, holding a volley list.
InitVolleys ==
  /\ messages = << >>
  /\ timeoutArg \in TimeoutArgs
  /\ op = "volleys"
  /\ turns = << >>
  /\ volleys \in VolleyLists
  /\ sessions = << >>
  /\ threw = FALSE
  /\ calls = 0
  /\ gaps = << >>
  /\ percentile = 0
  /\ timeout = 0
  /\ timeouts = << >>
  /\ returnedAt = 0
  /\ kneePoint = 0

NextVolleys ==
  \/ VolleysToSessions

SpecVolleys == InitVolleys /\ [][NextVolleys]_vars

\* The fallback percentiles a caller passes: the default and another.
FallbackPercentiles == {50, ThreadletFallbackPercentile}

\* Gap lists of up to MaxSamples gaps, unsorted.
SampleLists == UNION {[1..n -> Instants] : n \in 0..MaxSamples}

\* The zero-variance list the specification names.
LiteralGapLists == {<<1, 1, 1, 1, 1>>}

\* Forty gaps of which the second greatest lies above the 95th percentile:
\* 0, 1, ..., 38 and 1000.
LongGapLists == {[i \in 1..40 |-> IF i = 40 THEN 1000 ELSE i - 1]}

\* A caller of getAdaptiveTimeout and calculateTimeouts, holding a gap list.
InitTimeouts ==
  /\ messages = << >>
  /\ timeoutArg = << >>
  /\ op = "samples"
  /\ turns = << >>
  /\ gaps \in SampleLists \cup LiteralGapLists \cup LongGapLists
  /\ percentile = 0
  /\ NothingReturned

\* timeout = getAdaptiveTimeout(gaps, p)
GetAdaptiveTimeout ==
  /\ op = "samples"
  /\ \E p \in FallbackPercentiles :
       /\ percentile' = p
       /\ timeout' = getAdaptiveTimeout(gaps, p)
  /\ returnedAt' = getAdaptiveTimeoutReturn(gaps)
  /\ op' = "getAdaptiveTimeout"
  /\ gaps' = gapsAfterSort(gaps)
  /\ UNCHANGED <<messages, timeoutArg, turns, volleys, sessions, threw, calls,
                 timeouts, kneePoint>>

\* timeouts = calculateTimeouts(gaps)
CalculateTimeouts ==
  /\ op = "samples"
  /\ timeouts' = calculateTimeouts(gaps)
  /\ op' = "calculateTimeouts"
  /\ gaps' = gapsAfterSort(gaps)
  /\ UNCHANGED <<messages, timeoutArg, turns, volleys, sessions, threw, calls,
                 percentile, timeout, returnedAt, kneePoint>>

\* kneePoint = findKneePoint(gaps), of a caller whose list is ascending
FindKneePoint ==
  /\ op = "samples"
  /\ gaps = sortNumbers(gaps)
  /\ kneePoint' = findKneePoint(gaps)
  /\ op' = "findKneePoint"
  /\ UNCHANGED <<messages, timeoutArg, turns, volleys, sessions, threw, calls,
                 gaps, percentile, timeout, timeouts, returnedAt>>

NextTimeouts ==
  \/ GetAdaptiveTimeout
  \/ CalculateTimeouts
  \/ FindKneePoint

SpecTimeouts == InitTimeouts /\ [][NextTimeouts]_vars

\* Either caller, of the segmentation entry points or of the estimators.
InitCallers == Init \/ InitTimeouts

NextCallers ==
  \/ Next
  \/ NextTimeouts
  \/ GetPercentileTimeout

SpecCallers == InitCallers /\ [][NextCallers]_vars

(* ------------------------------ the claims ----------------------------- *)

\* The messages of a turn list, turn after turn.
MessagesOf(ts) == Concat([k \in 1..Len(ts) |-> ts[k].messages])

\* r is msgs sorted ascending by timestamp, equal timestamps in the order of
\* the caller's list (a message's ID is its position there).
IsStableSortOf(r, msgs) ==
  /\ Len(r) = Len(msgs)
  /\ {r[k].ID : k \in 1..Len(r)} = 1..Len(msgs)
  /\ \A k \in 1..Len(r) : r[k] = msgs[r[k].ID]
  /\ \A k \in 1..(Len(r) - 1) :
       \/ r[k].sent_at < r[k + 1].sent_at
       \/ r[k].sent_at = r[k + 1].sent_at /\ r[k].ID < r[k + 1].ID

\* The entry points that return turns made from `messages`.
ReturnedTurns == op \in {"messagesToTurns", "getFullSegmentation"}

\* C1: for a non-empty message list and any turn timeout, supplied or
\* derived, the messages of the returned turns, turn after turn, are exactly
\* the input messages stably sorted by timestamp: none dropped, none twice.
C1_TurnsCoverMessages ==
  (ReturnedTurns /\ messages # << >>) =>
    IsStableSortOf(MessagesOf(turns), messages)

\* C1 witness: messagesToTurns returned for a list given out of order, with
\* two messages of one timestamp, and split it into several turns.
C1_Witness ==
  /\ op = "messagesToTurns"
  /\ Len(turns) >= 2
  /\ \E i, j \in 1..Len(messages) :
       i < j /\ messages[i].sent_at > messages[j].sent_at
  /\ \E i, j \in 1..Len(messages) :
       i < j /\ messages[i].sent_at = messages[j].sent_at

\* C2: every returned turn is non-empty and all its messages are from the
\* turn's sender.
C2_TurnsOfOneSender ==
  ReturnedTurns =>
    \A k \in 1..Len(turns) :
      /\ Len(turns[k].messages) > 0
      /\ \A i \in 1..Len(turns[k].messages) :
           turns[k].messages[i].from_id = turns[k].sender_id

\* C2 witness: a turn of several messages next to a turn of the other sender.
C2_Witness ==
  /\ op = "messagesToTurns"
  /\ \E k \in 1..(Len(turns) - 1) :
       /\ Len(turns[k].messages) >= 2
       /\ turns[k + 1].sender_id # turns[k].sender_id

\* The positions p of the sorted messages with a turn boundary between the
\* p-th and the (p+1)-th message.
TurnBoundaries(ts) ==
  {Len(MessagesOf(SubSeq(ts, 1, k))) : k \in 1..(Len(ts) - 1)}

\* The seconds between two messages, the second the later.
SecondsBetween(a, b) == b.sent_at - a.sent_at

\* The scenario of the specification: A@0s, A@30s, B@65s, B@95s, A@400s.
Scenario ==
  <<createMessage(1, 2, 0), createMessage(2, 2, 30), createMessage(3, 10, 65),
    createMessage(4, 10, 95), createMessage(5, 2, 400)>>

\* The senders of the turns of the scenario, the timeout 60 supplied.
ScenarioTurnSenders ==
  LET ts == messagesToTurns(Scenario, <<60>>)
  IN [k \in 1..Len(ts) |-> ts[k].sender_id]

\* C3: with the turn timeout T of the run, a turn boundary lies between two
\* messages adjacent in timestamp order exactly if their senders differ or
\* they are more than T seconds apart (T seconds apart does not split); so
\* consecutive turns differ in sender or are more than T apart, and messages
\* inside a turn are at most T apart.  The scenario with T = 60 gives three
\* turns, of senders A, B, A.
C3_TurnBoundaries ==
  /\ (op = "messagesToTurns" /\ messages # << >>) =>
       LET sorted == MessagesOf(turns)
           T == turnTimeoutUsed(sorted, timeoutArg)
       IN /\ \A p \in 1..(Len(sorted) - 1) :
               (p \in TurnBoundaries(turns)) <=>
                 \/ sorted[p].from_id # sorted[p + 1].from_id
                 \/ SecondsBetween(sorted[p], sorted[p + 1]) > T
          /\ \A k \in 1..(Len(turns) - 1) :
               \/ turns[k].sender_id # turns[k + 1].sender_id
               \/ getGapSeconds(turns[k].end_time, turns[k + 1].start_time) > T
          /\ \A k \in 1..Len(turns) :
               \A i \in 1..(Len(turns[k].messages) - 1) :
                 SecondsBetween(turns[k].messages[i], turns[k].messages[i + 1])
                   <= T
  /\ ScenarioTurnSenders = <<2, 10, 2>>

\* C3 witness: a supplied timeout T; one sender's messages exactly T apart
\* stay in one turn, and the same sender's next message, later than T, starts
\* a new turn.
C3_Witness ==
  /\ op = "messagesToTurns"
  /\ ~Falsy(timeoutArg)
  /\ Len(turns) = 2
  /\ turns[1].sender_id = turns[2].sender_id
  /\ Len(turns[1].messages) = 2
  /\ SecondsBetween(turns[1].messages[1], turns[1].messages[2]) = timeoutArg[1]
  /\ getGapSeconds(turns[1].end_time, turns[2].start_time) > timeoutArg[1]

C8_StartAndEndTimes ==
  (op = "getFullSegmentation" /\ ~threw) =>
    /\ \A k \in 1..Len(turns) :
         LET t == turns[k]
         IN /\ t.start_time = 1000 * t.messages[1].sent_at
            /\ t.end_time = 1000 * t.messages[Len(t.messages)].sent_at
            /\ t.start_time <= t.end_time
    /\ \A k \in 1..Len(volleys) :
         LET v == volleys[k]
         IN /\ v.start_time = v.turns[1].start_time
            /\ v.end_time = v.turns[Len(v.turns)].end_time
            /\ v.start_time <= v.end_time
    /\ \A k \in 1..Len(sessions) :
         LET s == sessions[k]
         IN /\ s.start_time = s.volleys[1].start_time
            /\ s.end_time = s.volleys[Len(s.volleys)].end_time
            /\ s.start_time <= s.end_time

\* C8 witness: the pipeline returned a turn, a volley and a session that each
\* last some time, the volley of several turns.
C8_Witness ==
  /\ op = "getFullSegmentation"
  /\ \E k \in 1..Len(turns) : turns[k].start_time < turns[k].end_time
  /\ \E k \in 1..Len(volleys) :
       Len(volleys[k].turns) >= 2 /\ volleys[k].start_time < volleys[k].end_time
  /\ \E k \in 1..Len(sessions) : sessions[k].start_time < sessions[k].end_time

\* C9: on an empty message list every entry point returns an empty list and
\* none throws, whatever timeout is passed.
C9_EmptyInput ==
  (messages = << >> /\ op # "start") =>
    /\ ~threw
    /\ turns = << >>
    /\ volleys = << >>
    /\ sessions = << >>

\* C9 witness: the three phases have run on the empty list, a timeout
\* supplied.
C9_Witness ==
  /\ messages = << >>
  /\ op = "volleysToSessions"
  /\ timeoutArg # << >>

\* The seconds between the end of turn a and the start of turn b, times 1000.
MillisBetween(a, b) == Abs(b.start_time - a.end_time)

\* C4: with the volley timeout V of the run, adjacent turns of one volley are
\* at most V seconds apart, and the last turn of a volley and the first of
\* the next are more than V seconds apart.
C4_VolleyGaps ==
  (op = "turnsToVolleys" /\ ~threw) =>
    LET V == threadletTimeoutUsed(turns, timeoutArg)
    IN /\ \A j \in 1..Len(volleys) :
            \A k \in 1..(Len(volleys[j].turns) - 1) :
              MillisBetween(volleys[j].turns[k], volleys[j].turns[k + 1])
                <= 1000 * V
       /\ \A j \in 1..(Len(volleys) - 1) :
            MillisBetween(volleys[j].turns[Len(volleys[j].turns)],
                          volleys[j + 1].turns[1]) > 1000 * V

\* C4 witness: a supplied timeout V; two turns exactly V apart share a
\* volley, and a gap above V separates two volleys.
C4_Witness ==
  /\ op = "turnsToVolleys"
  /\ ~Falsy(timeoutArg)
  /\ Len(volleys) = 2
  /\ \E j \in 1..2 :
       /\ Len(volleys[j].turns) = 2
       /\ MillisBetween(volleys[j].turns[1], volleys[j].turns[2])
            = 1000 * timeoutArg[1]

\* The sender ids of a turn list.
SendersOf(ts) == {ts[k].sender_id : k \in 1..Len(ts)}

\* The orders a set of ids can be listed in.
Orderings(S) ==
  {f \in [1..Cardinality(S) -> S] : {f[k] : k \in 1..Cardinality(S)} = S}

\* The turn list with every message reworded.
Reworded(ts) ==
  [k \in 1..Len(ts) |->
     [ts[k] EXCEPT !.messages =
        [i \in 1..Len(ts[k].messages) |->
           [ts[k].messages[i] EXCEPT !.content = "reworded"]]]]

\* C6: the id of a volley is decided by the start of its first turn, the end
\* of its last turn and the set of its senders: it is the id createVolleyId
\* gives for these, the ids listed in any order, and rewording the messages
\* does not change it.
C6_VolleyIdOfKey ==
  (op \in {"turnsToVolleys", "buildVolley"} /\ ~threw) =>
    \A j \in 1..Len(volleys) :
      LET v == volleys[j]
      IN /\ \A ids \in Orderings(SendersOf(v.turns)) :
              v.id = createVolleyId(v.turns[1].start_time,
                                    v.turns[Len(v.turns)].end_time, ids)
         /\ buildVolley(Reworded(v.turns)).id = v.id
         /\ buildVolley(Reworded(v.turns)).pivot_text # v.pivot_text

\* C6 witness: buildVolley built a volley of three turns of both senders.
C6_Witness ==
  /\ op = "buildVolley"
  /\ Len(turns) = 3
  /\ SendersOf(turns) = Senders
  /\ Len(volleys) = 1

\* The senders of a turn list, turn by turn.
SenderSequence(ts) == [k \in 1..Len(ts) |-> ts[k].sender_id]

\* C7: the depth of a volley is the number of turns, from the second on,
\* whose sender differs from the sender of the turn before: 2 for A,A,B,B,A
\* and for A,B,A, 0 for A,A,A, 1 for A,B.
C7_DepthCountsChanges ==
  (op \in {"turnsToVolleys", "buildVolley"} /\ ~threw) =>
    \A j \in 1..Len(volleys) :
      LET v == volleys[j]
      IN /\ v.depth =
              Cardinality({k \in 2..Len(v.turns) :
                             v.turns[k].sender_id # v.turns[k - 1].sender_id})
         /\ SenderSequence(v.turns) = <<2, 2, 10, 10, 2>> => v.depth = 2
         /\ SenderSequence(v.turns) = <<2, 10, 2>> => v.depth = 2
         /\ SenderSequence(v.turns) = <<2, 2, 2>> => v.depth = 0
         /\ SenderSequence(v.turns) = <<2, 10>> => v.depth = 1

\* C7 witness: buildVolley built the volley of the turns A,A,B,B,A: three
\* runs of senders, depth 2.
C7_Witness ==
  /\ op = "buildVolley"
  /\ SenderSequence(turns) = <<2, 2, 10, 10, 2>>
  /\ Len(volleys) = 1
  /\ volleys[1].depth = 2

\* The element an ascending sort of g puts at 0-based index k.
ElementAt(g, k) ==
  CHOOSE x \in {g[i] : i \in 1..Len(g)} :
    /\ Cardinality({i \in 1..Len(g) : g[i] < x}) <= k
    /\ Cardinality({i \in 1..Len(g) : g[i] <= x}) >= k + 1

\* The 50th percentile of 10,20,30,40,50, sorted and unsorted.
LiteralMedians ==
  <<getPercentileTimeout(<<10, 20, 30, 40, 50>>, 50),
    getPercentileTimeout(<<50, 10, 40, 20, 30>>, 50)>>

AllGapsEqual == gaps # << >> /\ \A i \in 1..Len(gaps) : gaps[i] = gaps[1]

\* The index getPercentileTimeout reads for percentile p of n gaps.
ClampedIndex(p, n) ==
  LET index == Ceil(p * n, 100) - 1
  IN IF index < 0 THEN 0 ELSE IF index > n - 1 THEN n - 1 ELSE index

\* C11: for a non-empty gap list calculateTimeouts returns
\* getPercentileTimeout(gaps, 70) as turn_timeout, getAdaptiveTimeout(gaps, 85)
\* as threadlet_timeout and getPercentileTimeout(gaps, 95) as session_timeout;
\* for the empty list it returns 180, 1800 and 14400.
C11_CalculateTimeouts ==
  op = "calculateTimeouts" =>
    IF gaps = << >>
    THEN timeouts = [turn_timeout |-> 180, threadlet_timeout |-> 1800,
                     session_timeout |-> 14400]
    ELSE /\ timeouts.turn_timeout = getPercentileTimeout(gaps, 70)
         /\ timeouts.turn_timeout = ElementAt(gaps, ClampedIndex(70, Len(gaps)))
         /\ timeouts.threadlet_timeout = getAdaptiveTimeout(gaps, 85)
         /\ timeouts.session_timeout = getPercentileTimeout(gaps, 95)
         /\ timeouts.session_timeout =
              ElementAt(gaps, ClampedIndex(95, Len(gaps)))

\* C11 witness: calculateTimeouts returned three different timeouts for five
\* unsorted gaps, the threadlet timeout the knee value.
C11_Witness ==
  /\ op = "calculateTimeouts"
  /\ Len(gaps) = 5
  /\ gaps[1] > gaps[2]
  /\ timeouts.threadlet_timeout < timeouts.turn_timeout
  /\ timeouts.turn_timeout < timeouts.session_timeout

\* C12: for a gap list whose values all equal v, of any length from 1 on,
\* getAdaptiveTimeout returns v and so do the three components of
\* calculateTimeouts, and no call fails; getAdaptiveTimeout([1,1,1,1,1], 85)
\* returns 1.
C12_ZeroVariance ==
  AllGapsEqual =>
    /\ ~threw
    /\ op = "getAdaptiveTimeout" => timeout = gaps[1]
    /\ op = "calculateTimeouts" =>
         timeouts = [turn_timeout |-> gaps[1], threadlet_timeout |-> gaps[1],
                     session_timeout |-> gaps[1]]
    /\ (op = "getAdaptiveTimeout" /\ gaps = <<1, 1, 1, 1, 1>>
          /\ percentile = 85) => timeout = 1

\* C12 witness: getAdaptiveTimeout([1,1,1,1,1], 85) returned 1.
C12_Witness ==
  /\ op = "getAdaptiveTimeout"
  /\ gaps = <<1, 1, 1, 1, 1>>
  /\ percentile = 85
  /\ timeout = 1

\* C20 as stated: for at least 5 gaps, all identical, getAdaptiveTimeout
\* rejects the knee index findKneePoint reports and returns from the
\* percentile fallback.
C20_DegenerateRejected ==
  (op = "getAdaptiveTimeout" /\ AllGapsEqual /\ Len(gaps) >= 5) =>
    returnedAt = 105

\* C20, amended: for at least 5 gaps, all identical, findKneePoint reports
\* the middle index floor(n/2), which is interior, and getAdaptiveTimeout
\* accepts it and returns the value at it; that value is the one the
\* percentile fallback would return.
C20_DegenerateAccepted ==
  (op = "getAdaptiveTimeout" /\ AllGapsEqual /\ Len(gaps) >= 5) =>
    /\ findKneePoint(sortNumbers(gaps)) = Len(gaps) \div 2
    /\ returnedAt = 99
    /\ timeout = sortNumbers(gaps)[(Len(gaps) \div 2) + 1]
    /\ timeout = getPercentileTimeout(gaps, percentile)

\* C20 witness: getAdaptiveTimeout returned the knee value of five gaps of
\* one positive value.
C20_Witness ==
  /\ op = "getAdaptiveTimeout"
  /\ AllGapsEqual
  /\ Len(gaps) = 5
  /\ gaps[1] > 0
  /\ returnedAt = 99

\* The positions p of a list of runs with a boundary between the p-th and
\* the (p+1)-th element of the concatenated runs.
RunBoundaries(runs) ==
  {Len(Concat(SubSeq(runs, 1, k))) : k \in 1..(Len(runs) - 1)}

\* The turn lists of a volley list, and the volley lists of a session list.
TurnRuns(vs) == [j \in 1..Len(vs) |-> vs[j].turns]

VolleyRuns(ss) == [j \in 1..Len(ss) |-> ss[j].volleys]

\* C13: each phase called with a supplied timeout, 0 included, splits by
\* that timeout: messages of one sender, turns and volleys are split exactly
\* where the gap is greater than the supplied value; a timeout is derived
\* only when the argument is omitted.
C13_SuppliedTimeoutUsed ==
  timeoutArg # << >> =>
    /\ op = "messagesToTurns" =>
         LET sorted == MessagesOf(turns)
         IN \A p \in 1..(Len(sorted) - 1) :
              (p \in TurnBoundaries(turns)) <=>
                \/ sorted[p].from_id # sorted[p + 1].from_id
                \/ SecondsBetween(sorted[p], sorted[p + 1]) > timeoutArg[1]
    /\ (op = "turnsToVolleys" /\ ~threw) =>
         \A p \in 1..(Len(turns) - 1) :
           (p \in RunBoundaries(TurnRuns(volleys))) <=>
             MillisBetween(turns[p], turns[p + 1]) > 1000 * timeoutArg[1]
    /\ op = "volleysToSessions" =>
         \A p \in 1..(Len(volleys) - 1) :
           (p \in RunBoundaries(VolleyRuns(sessions))) <=>
             MillisBetween(volleys[p], volleys[p + 1]) > 1000 * timeoutArg[1]

\* The elements of a list.
Range(xs) == {xs[k] : k \in 1..Len(xs)}

\* xs lists the set S once each, ascending by numeric value.
IsAscendingListOf(xs, S) ==
  /\ Range(xs) = S
  /\ \A k \in 1..(Len(xs) - 1) : xs[k] < xs[k + 1]

\* The lowest id of a non-empty set of ids.
LowestId(S) == CHOOSE x \in S : \A y \in S : x <= y

\* C14: the participants of a volley are the sender ids of its turns, each
\* once, ascending by numeric value, so the first is the lowest (2 before
\* 10); the participants of a session are the ids of its volleys'
\* participants, each once, ascending likewise.
C14_ParticipantsSorted ==
  /\ (op \in {"turnsToVolleys", "buildVolley"} /\ ~threw) =>
       \A j \in 1..Len(volleys) :
         /\ IsAscendingListOf(volleys[j].participants,
                              SendersOf(volleys[j].turns))
         /\ volleys[j].participants[1] = LowestId(SendersOf(volleys[j].turns))
  /\ op = "volleysToSessions" =>
       \A j \in 1..Len(sessions) :
         IsAscendingListOf(
           sessions[j].participants,
           UNION {Range(sessions[j].volleys[k].participants) :
                    k \in 1..Len(sessions[j].volleys)})

\* The pivot text line of a message, the label "Me" given to the sender
\* lowestId.
LabelledLine(msg, lowestId) ==
  isoHourMinute(parseDate(msg.sent_at)) \o " - "
    \o (IF msg.from_id = lowestId THEN "Me" ELSE "Them")
    \o ": " \o msg.content

\* C15: the pivot text of a volley is one line "HH:MM - <label>: <content>"
\* per message, in the order of the turns and of the messages in a turn,
\* joined by newlines; the label is "Me" exactly for messages of the lowest
\* participant id of the volley, "Them" for the others.
C15_PivotText ==
  (op \in {"turnsToVolleys", "buildVolley"} /\ ~threw) =>
    \A j \in 1..Len(volleys) :
      LET msgs == MessagesOf(volleys[j].turns)
          lowest == LowestId(SendersOf(volleys[j].turns))
      IN volleys[j].pivot_text =
           join([k \in 1..Len(msgs) |-> LabelledLine(msgs[k], lowest)], "\n")

RECURSIVE SumOf(_)
\* The sum of a list of numbers.
SumOf(ns) == IF ns = << >> THEN 0 ELSE Head(ns) + SumOf(Tail(ns))

\* C16: the message_count of a volley is the sum of the lengths of its
\* turns' message lists, and the message_counts of the volleys getVolleys
\* returns for a message list sum to the length of that list.
C16_MessageCounts ==
  (op \in {"turnsToVolleys", "getVolleys", "getFullSegmentation"} /\ ~threw) =>
    /\ \A j \in 1..Len(volleys) :
         volleys[j].message_count =
           SumOf([k \in 1..Len(volleys[j].turns) |->
                    Len(volleys[j].turns[k].messages)])
    /\ SumOf([j \in 1..Len(volleys) |-> volleys[j].message_count])
         = Len(messages)

\* C16 witness: getVolleys returned one volley of three messages in two
\* turns.
C16_Witness ==
  /\ op = "getVolleys"
  /\ Len(messages) = 3
  /\ Len(volleys) = 1
  /\ Len(volleys[1].turns) = 2
  /\ volleys[1].message_count = 3

\* C17: buildVolley on an empty turn list throws and returns no volley;
\* turnsToVolleys, whatever the turn list and the timeout, does not throw and
\* every volley it returns holds at least one turn.
C17_NoEmptyVolley ==
  /\ (op = "buildVolley" /\ turns = << >>) => (threw /\ volleys = << >>)
  /\ op = "turnsToVolleys" =>
       /\ ~threw
       /\ \A j \in 1..Len(volleys) : Len(volleys[j].turns) >= 1

\* C17 witness: turnsToVolleys split three turns into two volleys without
\* throwing.
C17_Witness ==
  /\ op = "turnsToVolleys"
  /\ ~threw
  /\ Len(turns) = 3
  /\ Len(volleys) = 2

\* C19: with the session timeout S of the run, the sessions are consecutive
\* non-empty runs of the volley list, in its order, every volley in exactly
\* one; two adjacent volleys are in different sessions exactly if the gap
\* from the end of the earlier to the start of the later is greater than S.
C19_SessionRuns ==
  op = "volleysToSessions" =>
    LET S == sessionTimeoutUsed(volleys, timeoutArg)
    IN /\ Concat(VolleyRuns(sessions)) = volleys
       /\ \A j \in 1..Len(sessions) : Len(sessions[j].volleys) >= 1
       /\ \A p \in 1..(Len(volleys) - 1) :
            (p \in RunBoundaries(VolleyRuns(sessions))) <=>
              MillisBetween(volleys[p], volleys[p + 1]) > 1000 * S

\* C19 witness: a supplied timeout S; two volleys exactly S apart share the
\* first session, and a third, more than S later, is a session of its own.
C19_Witness ==
  /\ op = "volleysToSessions"
  /\ ~Falsy(timeoutArg)
  /\ Len(volleys) = 3
  /\ Len(sessions) = 2
  /\ Len(sessions[1].volleys) = 2
  /\ MillisBetween(volleys[1], volleys[2]) = 1000 * timeoutArg[1]
  /\ MillisBetween(volleys[2], volleys[3]) > 1000 * timeoutArg[1]

\* C18: when a message of the list has a timestamp that is no date,
\* messagesToTurns, getVolleys and getFullSegmentation each fail with an
\* error and return no segmentation.
C18_MalformedTimestampFails ==
  (Malformed(messages)
     /\ op \in {"messagesToTurns", "getVolleys", "getFullSegmentation"}) =>
    threw

\* The difference |i/(n-1) - (g[i]-min)/(max-min)| at the 0-based index i of
\* an ascending list g, as a fraction scaled by (n-1) * (max-min).
ScaledDifference(g, i) ==
  Abs(i * (g[Len(g)] - g[1]) - (g[i + 1] - g[1]) * (Len(g) - 1))

\* The interior indices of g at which that difference is greatest.
Maximisers(g) ==
  {i \in 1..(Len(g) - 2) :
     \A j \in 1..(Len(g) - 2) : ScaledDifference(g, i) >= ScaledDifference(g, j)}

\* A list is too short, or too flat, to have a knee.
Degenerate(g) == Len(g) < 3 \/ g[Len(g)] = g[1]

\* C22 as stated: on an ascending list findKneePoint returns floor(n/2) when
\* n < 3 or max = min, and otherwise the lowest interior index at which
\* |i/(n-1) - (v[i]-min)/(max-min)| is greatest, never 0 or n-1.
C22_LowestMaximiser ==
  op = "findKneePoint" =>
    IF Degenerate(gaps) THEN kneePoint = Len(gaps) \div 2
    ELSE /\ kneePoint \in Maximisers(gaps)
         /\ \A i \in Maximisers(gaps) : kneePoint <= i
         /\ kneePoint \notin {0, Len(gaps) - 1}

\* C22, amended: on an ascending list findKneePoint returns floor(n/2) when
\* n < 3 or max = min, and otherwise an interior index at which
\* |i/(n-1) - (v[i]-min)/(max-min)| is greatest, never 0 or n-1; of several
\* such indices the rounding of the quotients decides, the lowest for
\* 0,t,t,2t and the second for 0,0,t,t.
C22_SomeMaximiser ==
  op = "findKneePoint" =>
    IF Degenerate(gaps) THEN kneePoint = Len(gaps) \div 2
    ELSE /\ kneePoint \in Maximisers(gaps)
         /\ kneePoint \notin {0, Len(gaps) - 1}
         /\ gaps = <<0, TimeStep, TimeStep, 2 * TimeStep>> => kneePoint = 1
         /\ gaps = <<0, 0, TimeStep, TimeStep>> => kneePoint = 2

\* C22 witness: findKneePoint returned the second of two interior indices
\* with the same difference.
C22_Witness ==
  /\ op = "findKneePoint"
  /\ gaps = <<0, 0, TimeStep, TimeStep>>
  /\ Maximisers(gaps) = {1, 2}
  /\ kneePoint = 2

\* C23: for fewer than 5 gaps, none included, and every fallback percentile
\* getAdaptiveTimeout returns what getPercentileTimeout returns for the same
\* arguments, from the return for too few samples: 300 for no gaps,
\* otherwise the gap at the clamped percentile index.
C23_FewSamples ==
  (op = "getAdaptiveTimeout" /\ Len(gaps) < 5) =>
    /\ returnedAt = 88
    /\ timeout = getPercentileTimeout(gaps, percentile)
    /\ gaps = << >> => timeout = 300
    /\ gaps # << >> =>
         timeout = ElementAt(gaps, ClampedIndex(percentile, Len(gaps)))

\* C23 witness: getAdaptiveTimeout returned the median of four gaps, which
\* is not the gap at their knee.
C23_Witness ==
  /\ op = "getAdaptiveTimeout"
  /\ gaps = <<TimeStep, 0, TimeStep, 0>>
  /\ percentile = 50
  /\ timeout = 0
  /\ returnedAt = 88

\* C26: for a non-empty list of non-negative gaps calculateTimeouts returns
\* a session_timeout that is at least the turn_timeout and at least the
\* threadlet_timeout, lists of 40 gaps and more included.
C26_SessionCoarsest ==
  (op = "calculateTimeouts" /\ gaps # << >>) =>
    /\ timeouts.session_timeout >= timeouts.turn_timeout
    /\ timeouts.session_timeout >= timeouts.threadlet_timeout

\* C27: for at least 5 non-negative gaps getAdaptiveTimeout returns the gap
\* at the knee index of the ascending list: that index is interior, the
\* return is the one for the knee value, never the percentile fallback, and
\* the value is one of the gaps.
C27_KneeValue ==
  (op = "getAdaptiveTimeout" /\ Len(gaps) >= 5) =>
    LET sorted == sortNumbers(gaps)
        knee == findKneePoint(sorted)
    IN /\ knee \in 1..(Len(gaps) - 2)
       /\ returnedAt = 99
       /\ timeout = sorted[knee + 1]
       /\ timeout \in Range(gaps)

\* C27 witness: getAdaptiveTimeout returned the knee value of five gaps, not
\* all equal, which is not the value at the fallback percentile.
C27_Witness ==
  /\ op = "getAdaptiveTimeout"
  /\ Len(gaps) = 5
  /\ ~AllGapsEqual
  /\ returnedAt = 99
  /\ timeout # getPercentileTimeout(gaps, percentile)

\* The turn list with every turn, and every message of it, given to one
\* sender.
WithSender(ts, id) ==
  [k \in 1..Len(ts) |->
     [ts[k] EXCEPT !.sender_id = id,
                   !.messages = [m \in 1..Len(@) |-> [@[m] EXCEPT !.from_id = id]]]]

\* C21: a turn list and the list of the same turns given all to one sender,
\* whichever, are split by turnsToVolleys at the same positions for the same
\* timeout argument, supplied or omitted; so any two lists with the same
\* start and end times are.
C21_TimingOnly ==
  (op = "turnsToVolleys" /\ ~threw) =>
    \A id \in Senders :
      LET r == turnsToVolleys(WithSender(turns, id), timeoutArg)
      IN /\ ~r.threw
         /\ RunBoundaries(TurnRuns(r.value)) = RunBoundaries(TurnRuns(volleys))

\* C21 witness: of three turns the first two, of different senders, share a
\* volley, and the third, of the sender of the second, starts the next.
C21_Witness ==
  /\ op = "turnsToVolleys"
  /\ Len(turns) = 3
  /\ Len(volleys) = 2
  /\ Len(volleys[1].turns) = 2
  /\ turns[1].sender_id # turns[2].sender_id
  /\ turns[2].sender_id = turns[3].sender_id

\* Every turn ends no earlier than it starts and no later than the next
\* starts.
Chronological(ts) ==
  /\ \A k \in 1..Len(ts) : ts[k].start_time <= ts[k].end_time
  /\ \A k \in 1..(Len(ts) - 1) : ts[k].end_time <= ts[k + 1].start_time

\* The largest gap between consecutive turns, in milliseconds.
LargestGapMillis(ts) ==
  CHOOSE g \in {MillisBetween(ts[k], ts[k + 1]) : k \in 1..(Len(ts) - 1)} :
    \A k \in 1..(Len(ts) - 1) : MillisBetween(ts[k], ts[k + 1]) <= g

\* C28: with a derived timeout turnsToVolleys returns, for 1 to 5
\* chronological turns, one volley of all the turns: the derived timeout is
\* 1800 for one turn and otherwise the largest gap between the turns.
C28_FewTurnsOneVolley ==
  (/\ op = "turnsToVolleys"
   /\ Falsy(timeoutArg)
   /\ Len(turns) \in 1..5
   /\ Chronological(turns)) =>
    /\ ~threw
    /\ Len(volleys) = 1
    /\ volleys[1].turns = turns
    /\ Len(turns) = 1 => threadletTimeoutUsed(turns, timeoutArg) = 1800
    /\ Len(turns) > 1 =>
         1000 * threadletTimeoutUsed(turns, timeoutArg) = LargestGapMillis(turns)

\* C28 witness: five turns, the last after a silence longer than the
\* default of 1800 seconds, returned as one volley for an omitted timeout.
C28_Witness ==
  /\ op = "turnsToVolleys"
  /\ timeoutArg = << >>
  /\ Len(turns) = 5
  /\ Chronological(turns)
  /\ MillisBetween(turns[4], turns[5]) > 1000 * 1800
  /\ Len(volleys) = 1

\* C30: the turn lists of the returned volleys, one after the other, are the
\* input turn list, chronological or not, whatever the timeout; no volley is
\* without turns.
C30_TurnsPartitioned ==
  (op = "turnsToVolleys" /\ ~threw) =>
    /\ Concat(TurnRuns(volleys)) = turns
    /\ \A j \in 1..Len(volleys) : volleys[j].turns # << >>

\* C30 witness: three turns, the second starting before the first, returned
\* as two volleys.
C30_Witness ==
  /\ op = "turnsToVolleys"
  /\ Len(turns) = 3
  /\ turns[2].start_time < turns[1].start_time
  /\ Len(volleys) = 2
  /\ Concat(TurnRuns(volleys)) = turns

\* C24: no call changes the array it was given: the caller's message array
\* and gap array hold the same elements in the same order after any call,
\* the turn array after turnsToVolleys and the volley array after
\* volleysToSessions.
C24_InputsUnchanged ==
  [][/\ messages' = messages
     /\ gaps' = gaps
     /\ op' = "turnsToVolleys" => turns' = turns
     /\ op' = "volleysToSessions" => volleys' = volleys]_vars

\* C24 witness: messagesToTurns returned the turns of a list whose second
\* message is the earlier one, and the list still has it second.
C24_Witness ==
  /\ op = "messagesToTurns"
  /\ Len(messages) = 2
  /\ messages[2].sent_at < messages[1].sent_at
  /\ MessagesOf(turns) = <<messages[2], messages[1]>>

\* C25: getFullSegmentation returns the turns messagesToTurns returns for
\* the messages, the volleys turnsToVolleys returns for those turns and the
\* sessions volleysToSessions returns for those volleys, no timeout passed;
\* the boundaries are those of the timeouts derived from the gaps between
\* the sorted messages, between the turns and between the volleys; and the
\* volleys are those getVolleys returns.
C25_PhasesComposed ==
  op = "getFullSegmentation" =>
    LET sorted == MessagesOf(turns)
        T == calculateTimeouts(messageGaps(sorted)).turn_timeout
        V == calculateTimeouts(turnGaps(turns)).threadlet_timeout
        S == calculateTimeouts(volleyGaps(volleys)).session_timeout
    IN /\ ~threw
       /\ turns = messagesToTurns(messages, << >>)
       /\ Returned(volleys) = turnsToVolleys(turns, << >>)
       /\ sessions = volleysToSessions(volleys, << >>)
       /\ Returned(volleys) = getVolleys(messages)
       /\ \A p \in 1..(Len(sorted) - 1) :
            (p \in TurnBoundaries(turns)) <=>
              \/ sorted[p].from_id # sorted[p + 1].from_id
              \/ SecondsBetween(sorted[p], sorted[p + 1]) > T
       /\ \A p \in 1..(Len(turns) - 1) :
            (p \in RunBoundaries(TurnRuns(volleys))) <=>
              MillisBetween(turns[p], turns[p + 1]) > 1000 * V
       /\ \A p \in 1..(Len(volleys) - 1) :
            (p \in RunBoundaries(VolleyRuns(sessions))) <=>
              MillisBetween(volleys[p], volleys[p + 1]) > 1000 * S

\* C25 witness: getFullSegmentation returned four turns in one volley for
\* six messages whose own gaps would give a smaller volley timeout than the
\* gaps between the turns do.
C25_Witness ==
  /\ op = "getFullSegmentation"
  /\ Len(messages) = 6
  /\ Len(turns) = 4
  /\ Len(volleys) = 1
  /\ calculateTimeouts(messageGaps(MessagesOf(turns))).threadlet_timeout
       < calculateTimeouts(turnGaps(turns)).threadlet_timeout

RECURSIVE BySentAt(_)
\* A set of messages with distinct timestamps, listed from the earliest.
BySentAt(S) ==
  IF S = {} THEN << >>
  ELSE LET first == CHOOSE m \in S : \A x \in S : m.sent_at <= x.sent_at
       IN <<first>> \o BySentAt(S \ {first})

\* A list backwards.
Reverse(xs) == [k \in 1..Len(xs) |-> xs[Len(xs) + 1 - k]]

\* The orders the caller can list the messages in: all of them for up to
\* MaxMsgs messages, for more the order of sending and the list backwards.
Rearrangements(msgs) ==
  IF Len(msgs) <= MaxMsgs
  THEN {[k \in 1..Len(msgs) |-> msgs[f[k]]] : f \in Orderings(1..Len(msgs))}
  ELSE {BySentAt(Range(msgs)), Reverse(msgs)}

\* C29: for messages with pairwise distinct timestamps getVolleys returns
\* the same volley list, field by field, for the caller's list and for every
\* other order of the same messages.
C29_OrderIndependent ==
  (op = "getVolleys" /\ calls = 1 /\ DistinctTimestamps(messages)) =>
    \A p \in Rearrangements(messages) :
      getVolleys(p) = [threw |-> threw, value |-> volleys]

\* C29 witness: getVolleys returned the volleys of three messages listed
\* neither in the order of sending nor backwards.
C29_Witness ==
  /\ op = "getVolleys"
  /\ calls = 1
  /\ Len(messages) = 3
  /\ DistinctTimestamps(messages)
  /\ messages[2].sent_at < messages[3].sent_at
  /\ messages[3].sent_at < messages[1].sent_at
  /\ Len(volleys) >= 1

====
